---- MODULE Spec2Model ----
(***************************************************************************)
(* Model of the embedding subsystem of memento-mcp:                        *)
(*   - EmbeddingServiceFactory (the provider registry, createService,      *)
(*     createFromEnvironment), specification Spec;                         *)
(*   - OllamaEmbeddingService (generateEmbedding, generateEmbeddings,      *)
(*     _normalizeVector), specifications SpecOllama (one caller),          *)
(*     SpecOllamaFair (the same with fairness) and SpecConcurrent (two     *)
(*     callers on one instance).                                           *)
(***************************************************************************)
EXTENDS Integers, Sequences, FiniteSets

VARIABLES
    providers,    \* own properties of EmbeddingServiceFactory.providers, in insertion order
    proto,        \* the prototype of the providers object
    registered,   \* history: lowercased name -> constructor registered since the last reset
    nreg,         \* number of registerProvider calls made after module load
    last,         \* the most recent factory call: its input, its outcome, the constructors it invoked
    svc,          \* the OllamaEmbeddingService instance (fields fixed by the constructor)
    call,         \* the generateEmbedding / generateEmbeddings call in progress on svc
    calls         \* caller -> its call on svc, when several callers use svc at once

vars == <<providers, proto, registered, nreg, last, svc, call, calls>>

factoryVars == <<providers, proto, registered, nreg, last>>
ollamaVars == <<svc, call, calls>>

(***************************************************************************)
(* Bounds                                                                  *)
(***************************************************************************)
\* registerProvider calls explored after the three built-in registrations
MaxRegister == 2

Undefined == "undefined"

(***************************************************************************)
(* Names, String.prototype.toLowerCase                                     *)
(***************************************************************************)
\* Provider names a caller may pass.  "" is the empty string; "constructor"
\* and "__proto__" are property names every plain object inherits; "7" is an
\* integer-like key.
RawNames == {"default", "openai", "OpenAI", "ollama", "x", "X", "", "constructor", "__proto__", "7"}

\* name.toLowerCase() on RawNames
ToLowerCase(s) ==
    CASE s = "OpenAI" -> "openai"
      [] s = "X" -> "x"
      [] OTHER -> s

Keys == {ToLowerCase(s) : s \in RawNames}

(***************************************************************************)
(* JavaScript truthiness of a string-or-undefined value (`x || y`, `!x`)   *)
(***************************************************************************)
Falsy(v) == v = Undefined \/ v = ""

(***************************************************************************)
(* EmbeddingServiceConfig and the environment                              *)
(***************************************************************************)
\* dimensions: 0 stands for an absent (or zero) value, which the code never
\* tells apart (`config.dimensions || 1024`).
Configs ==
    [provider : RawNames \cup {Undefined},
     apiKey : {Undefined, "sk-test"},
     apiEndpoint : {Undefined},
     model : {Undefined},
     dimensions : {0, 8}]

\* createService() called with no argument: `config = {}`
EmptyConfig ==
    [provider |-> Undefined, apiKey |-> Undefined, apiEndpoint |-> Undefined,
     model |-> Undefined, dimensions |-> 0]

\* process.env, restricted to the variables createFromEnvironment reads
Envs ==
    [MOCK_EMBEDDINGS : {Undefined, "true", "1"},
     EMBEDDING_PROVIDER : RawNames \cup {Undefined},
     OPENAI_API_KEY : {Undefined, "sk-test"},
     OLLAMA_API_ENDPOINT : {Undefined, "http://ollama:11434/api/embeddings"},
     EMBEDDING_MODEL : {Undefined, "nomic-embed-text"}]

NoEnv ==
    [MOCK_EMBEDDINGS |-> Undefined, EMBEDDING_PROVIDER |-> Undefined,
     OPENAI_API_KEY |-> Undefined, OLLAMA_API_ENDPOINT |-> Undefined,
     EMBEDDING_MODEL |-> Undefined]

(***************************************************************************)
(* Services, errors, outcomes                                              *)
(***************************************************************************)
NoService == [class |-> "none", model |-> Undefined, dimensions |-> 0]
NoError == [type |-> "none", name |-> ""]

Returned(service) == [ok |-> TRUE, service |-> service, error |-> NoError]
Thrown(error) == [ok |-> FALSE, service |-> NoService, error |-> error]

\* new DefaultEmbeddingService(dimensions): the synthetic provider, always
\* constructible
DefaultEmbeddingService(dimensions) ==
    [class |-> "DefaultEmbeddingService", model |-> Undefined, dimensions |-> dimensions]

\* new OpenAIEmbeddingService({apiKey, model, dimensions, apiEndpoint})
OpenAIEmbeddingService(config) ==
    [class |-> "OpenAIEmbeddingService", model |-> config.model, dimensions |-> config.dimensions]

\* The service a test's constructor F returns
CustomService == [class |-> "CustomService", model |-> Undefined, dimensions |-> 0]

\* throw new Error(`Provider "${providerName}" is not registered`)
NotRegisteredError(providerName) == [type |-> "Provider is not registered", name |-> providerName]
ApiKeyRequiredError == [type |-> "API key is required for OpenAI embedding service", name |-> ""]
\* the failure a test's constructor G throws
CustomError == [type |-> "CustomError", name |-> ""]
\* `providerFn is not a function`, `service.getModelInfo is not a function`
TypeErrorValue == [type |-> "TypeError", name |-> ""]
\* Function("[object Object]")
SyntaxErrorValue == [type |-> "SyntaxError", name |-> ""]

(***************************************************************************)
(* OllamaEmbeddingService: constructor and getModelInfo                    *)
(***************************************************************************)
DefaultModel == "mxbai-embed-large"
DefaultDimensions == 1024
DefaultVersion == "1.0.0"
DefaultApiEndpoint == "http://localhost:11434/api/embeddings"

\* constructor(config): every field defaults independently through `||`
OllamaEmbeddingService(config) ==
    [model |-> IF Falsy(config.model) THEN DefaultModel ELSE config.model,
     dimensions |-> IF config.dimensions = 0 THEN DefaultDimensions ELSE config.dimensions,
     version |-> IF Falsy(config.version) THEN DefaultVersion ELSE config.version,
     apiEndpoint |-> IF Falsy(config.apiEndpoint) THEN DefaultApiEndpoint ELSE config.apiEndpoint]

\* getModelInfo()
getModelInfo(service) ==
    [name |-> service.model, dimensions |-> service.dimensions, version |-> service.version]

(***************************************************************************)
(* The registry: a plain object used as a map                              *)
(***************************************************************************)
\* Values a property lookup on the registry can yield besides Undefined:
\* the built-in constructors, the constructors F (returns CustomService) and
\* G (throws CustomError) a caller registers, and what a plain object
\* inherits: Object.prototype itself (through __proto__), and the functions
\* Object and Function (through constructor).
BuiltinDefault == "builtin:default"
BuiltinOpenAI == "builtin:openai"
BuiltinOllama == "builtin:ollama"
CallerConstructors == {"F", "G"}
ObjectPrototype == "Object.prototype"
ObjectFunction == "Object"
FunctionFunction == "Function"
RegisteredConstructors == {BuiltinDefault, BuiltinOpenAI, BuiltinOllama} \cup CallerConstructors

HasOwn(props, key) == \E i \in 1..Len(props) : props[i].name = key

OwnValue(props, key) == (CHOOSE i \in 1..Len(props) : props[i].name = key)

\* EmbeddingServiceFactory.providers[key]: an own property, else what the
\* prototype chain holds under that key
GetProperty(props, prototype, key) ==
    IF HasOwn(props, key) THEN props[OwnValue(props, key)].fn
    ELSE IF key = "__proto__" THEN prototype
    ELSE IF key = "constructor"
         THEN (IF prototype = ObjectPrototype THEN ObjectFunction ELSE FunctionFunction)
    ELSE Undefined

\* EmbeddingServiceFactory.providers[key] = fn: own properties after the
\* assignment.  The key "__proto__" reaches the inherited setter instead.
SetOwnProperty(props, key, fn) ==
    IF key = "__proto__" THEN props
    ELSE IF HasOwn(props, key)
         THEN [props EXCEPT ![OwnValue(props, key)] = [name |-> key, fn |-> fn]]
    ELSE Append(props, [name |-> key, fn |-> fn])

\* ... and the object's prototype after the assignment
SetPrototype(prototype, key, fn) ==
    IF key = "__proto__" THEN fn ELSE prototype

\* The three registrations made when the module is loaded
BuiltinProviders ==
    <<[name |-> "default", fn |-> BuiltinDefault],
      [name |-> "openai", fn |-> BuiltinOpenAI],
      [name |-> "ollama", fn |-> BuiltinOllama]>>

(***************************************************************************)
(* Calling what the lookup found                                           *)
(***************************************************************************)
\* The object the call providerFn(config) yields, as createService sees it.
\* Object(config) hands back the config object, which is no service.
ConfigObject == [class |-> "Object", model |-> Undefined, dimensions |-> 0]

ServiceOf(instance) ==
    [class |-> "OllamaEmbeddingService", model |-> instance.model,
     dimensions |-> instance.dimensions]

\* A check that lets a config without credential through
ApiKeyNeverMissing(config) == FALSE

\* !config.apiKey, the first statement of the 'openai' constructor
ApiKeyMissing(config) == Falsy(config.apiKey)

\* providerFn(config) for each value the lookup can yield
CallProvider(fn, config) ==
    CASE fn = BuiltinDefault -> Returned(DefaultEmbeddingService(config.dimensions))
      [] fn = BuiltinOpenAI ->
            IF ApiKeyMissing(config) THEN Thrown(ApiKeyRequiredError)
            ELSE Returned(OpenAIEmbeddingService(config))
      [] fn = BuiltinOllama ->
            Returned(ServiceOf(OllamaEmbeddingService(
                [apiEndpoint |-> config.apiEndpoint, model |-> config.model,
                 dimensions |-> config.dimensions, version |-> Undefined])))
      [] fn = "F" -> Returned(CustomService)
      [] fn = "G" -> Thrown(CustomError)
      [] fn = ObjectFunction -> Returned(ConfigObject)
      [] fn = FunctionFunction -> Thrown(SyntaxErrorValue)
      [] OTHER -> Thrown(TypeErrorValue)

\* Whether providerFn(config) enters a function at all
IsCallable(fn) == fn # ObjectPrototype /\ fn # Undefined

\* (config.provider || 'default').toLowerCase()
ProviderName(config) ==
    ToLowerCase(IF Falsy(config.provider) THEN "default" ELSE config.provider)

\* A createService that recovers from a constructor failure by itself
RethrowSwallowed(error) == Returned(DefaultEmbeddingService(0))

\* The catch block of createService: log, then `throw error`
Rethrow(error) == Thrown(error)

\* The try block of createService: call the constructor, read the new
\* service's model info for the log, return the service
TryProvider(providerFn, config) ==
    LET made == CallProvider(providerFn, config) IN
    IF ~made.ok THEN Rethrow(made.error)
    ELSE IF made.service.class = "Object" THEN Rethrow(TypeErrorValue)
    ELSE Returned(made.service)

\* createService(config): the outcome
createService(props, prototype, config) ==
    LET providerName == ProviderName(config)
        providerFn == GetProperty(props, prototype, providerName)
    IN  IF providerFn # Undefined
        THEN TryProvider(providerFn, config)
        ELSE Thrown(NotRegisteredError(providerName))

\* createService(config): the functions it invoked, with their argument
createServiceCalls(props, prototype, config) ==
    LET providerFn == GetProperty(props, prototype, ProviderName(config))
    IN  IF IsCallable(providerFn) THEN <<[fn |-> providerFn, config |-> config]>> ELSE <<>>

\* A createFromEnvironment that ignores the flag
UseMockEmbeddingsIgnored(env) == FALSE

\* process.env.MOCK_EMBEDDINGS === 'true'
UseMockEmbeddings(env) == env.MOCK_EMBEDDINGS = "true"

\* The config createFromEnvironment derives from the environment
EnvironmentConfig(env) ==
    [provider |-> IF Falsy(env.EMBEDDING_PROVIDER) THEN "default" ELSE env.EMBEDDING_PROVIDER,
     apiKey |-> env.OPENAI_API_KEY,
     apiEndpoint |-> env.OLLAMA_API_ENDPOINT,
     model |-> env.EMBEDDING_MODEL,
     dimensions |-> 0]

\* A createFromEnvironment without its catch block
FallBackMissing(error) == Thrown(error)

\* The catch block of createFromEnvironment: log, fall back to the default
FallBack(error) == Returned(DefaultEmbeddingService(0))

\* createFromEnvironment(): the outcome
createFromEnvironment(props, prototype, env) ==
    IF UseMockEmbeddings(env) THEN Returned(DefaultEmbeddingService(0))
    ELSE LET made == createService(props, prototype, EnvironmentConfig(env))
         IN  IF made.ok THEN made ELSE FallBack(made.error)

\* createFromEnvironment(): the functions it invoked
createFromEnvironmentCalls(props, prototype, env) ==
    IF UseMockEmbeddings(env) THEN <<>>
    ELSE createServiceCalls(props, prototype, EnvironmentConfig(env))

\* Object.keys(providers): integer-like keys first, then the others in
\* insertion order
IsIntegerKey(key) == key = "7"

RECURSIVE SelectKeys(_, _)
SelectKeys(props, integerLike) ==
    IF props = <<>> THEN <<>>
    ELSE LET rest == SelectKeys(Tail(props), integerLike)
         IN  IF IsIntegerKey(Head(props).name) = integerLike
             THEN <<Head(props).name>> \o rest ELSE rest

getAvailableProviders(props) == SelectKeys(props, TRUE) \o SelectKeys(props, FALSE)

(***************************************************************************)
(* State after the module is loaded                                        *)
(***************************************************************************)
\* The factory's methods are synchronous: the caller makes one call, takes
\* its result (Return), and only then makes the next.  `last` is the result
\* the caller holds, NoCall when it holds none.
NoCall ==
    [op |-> "none", config |-> EmptyConfig, env |-> NoEnv,
     outcome |-> Returned(NoService), calls |-> <<>>, listed |-> <<>>]

FactoryLoaded ==
    /\ providers = BuiltinProviders
    /\ proto = ObjectPrototype
    /\ registered = [k \in Keys |->
                        CASE k = "default" -> BuiltinDefault
                          [] k = "openai" -> BuiltinOpenAI
                          [] k = "ollama" -> BuiltinOllama
                          [] OTHER -> Undefined]
    /\ nreg = 0
    /\ last = NoCall


(***************************************************************************)
(* JSON values of an embedding array, and the numbers computed from them   *)
(***************************************************************************)
\* A number is kept exactly, as n / sqrt(d) with integers n and d >= 1 (an
\* integer has d = 1).  OneE200 is the JSON number 1e200, whose square
\* overflows a double.  Null is JSON null, Str a non-numeric string ("a").
Num(n) == [t |-> "number", n |-> n, d |-> 1]
OneE200 == [t |-> "1e200", n |-> 0, d |-> 1]
Null == [t |-> "null", n |-> 0, d |-> 1]
Str == [t |-> "string", n |-> 0, d |-> 1]
NaNValue == [t |-> "NaN", n |-> 0, d |-> 1]

\* typeof x === 'number', NaN apart
IsNumber(x) == x.t \in {"number", "1e200"}

\* The double a sum of squares can be: finite, Infinity or NaN
Finite(v) == [k |-> "finite", v |-> v]
Infinity == [k |-> "Infinity", v |-> 0]
NaN == [k |-> "NaN", v |-> 0]

\* vector[i] * vector[i], the operands converted by ToNumber
Square(x) ==
    CASE x.t = "number" -> Finite(x.n * x.n)
      [] x.t = "null" -> Finite(0)
      [] x.t = "1e200" -> Infinity
      [] OTHER -> NaN

\* magnitude + square
Plus(a, b) ==
    IF a.k = "NaN" \/ b.k = "NaN" THEN NaN
    ELSE IF a.k = "Infinity" \/ b.k = "Infinity" THEN Infinity
    ELSE Finite(a.v + b.v)

\* The first loop of _normalizeVector: magnitude += vector[i] * vector[i],
\* from magnitude = 0, for i = 0 .. length - 1
RECURSIVE SumOfSquares(_, _, _)
SumOfSquares(vector, i, magnitude) ==
    IF i > Len(vector) THEN magnitude
    ELSE SumOfSquares(vector, i + 1, Plus(magnitude, Square(vector[i])))

\* A test that lets a magnitude of 0 through to the division
SqrtIsNotNegative(sum) == sum.k = "Infinity" \/ (sum.k = "finite" /\ sum.v >= 0)

\* magnitude > 0, for magnitude = Math.sqrt(sum)
SqrtIsPositive(sum) == sum.k = "Infinity" \/ (sum.k = "finite" /\ sum.v > 0)

\* vector[i] /= magnitude, for magnitude = Math.sqrt(sum); the guard keeps
\* magnitude > 0 (0 / 0 would be NaN)
Divide(x, sum) ==
    CASE sum.k = "Infinity" -> Num(0)
      [] sum.k = "finite" /\ sum.v = 0 -> NaNValue
      [] x.t = "number" -> IF x.n = 0 THEN Num(0) ELSE [t |-> "number", n |-> x.n, d |-> x.d * sum.v]
      [] x.t = "null" -> Num(0)
      [] OTHER -> NaNValue

\* _normalizeVector(vector): the array after the in-place update
normalizeVector(vector) ==
    LET sum == SumOfSquares(vector, 1, Finite(0)) IN
    IF SqrtIsPositive(sum)
    THEN [i \in 1..Len(vector) |-> Divide(vector[i], sum)]
    ELSE IF vector = <<>> THEN <<Num(1)>>
    ELSE [vector EXCEPT ![1] = Num(1)]

\* The divisions _normalizeVector performs: one per component in the branch
\* magnitude > 0, none in the other
Divisions(vector) ==
    IF SqrtIsPositive(SumOfSquares(vector, 1, Finite(0))) THEN Len(vector) ELSE 0

\* The squared Euclidean norm of a vector of finite numbers, as the fraction
\* num / den
RECURSIVE NormSquared(_)
NormSquared(vector) ==
    IF vector = <<>> THEN [num |-> 0, den |-> 1]
    ELSE LET x == Head(vector)
             rest == NormSquared(Tail(vector))
         IN  [num |-> x.n * x.n * rest.den + rest.num * x.d, den |-> x.d * rest.den]

\* Every component is a finite number and the Euclidean norm is 1
IsUnitVector(vector) ==
    /\ \A i \in 1..Len(vector) : vector[i].t = "number"
    /\ NormSquared(vector).num = NormSquared(vector).den

(***************************************************************************)
(* What the endpoint can answer                                            *)
(***************************************************************************)
\* longest embedding array and most texts of one generateEmbeddings call
MaxVectorLength == 2
MaxTexts == 3
\* ticks a request may stay unanswered before the axios timeout fires
MaxDelay == 2

Texts == {"a", "b"}

Elements == {Num(0), Num(3), Num(4), Num(-3), Null, Str, OneE200}

ArraysOf(elements) == UNION {[1..n -> elements] : n \in 1..MaxVectorLength}

\* response.data.embedding: absent, or a JSON value of some type
Embedding(type, items) == [type |-> type, items |-> items]

\* response.data of a 2xx answer
Body(present, embedding) == [present |-> present, embedding |-> embedding]

MalformedBodies ==
    {Body(FALSE, Embedding("undefined", <<>>))}
    \cup {Body(TRUE, Embedding(type, <<>>)) :
            type \in {"undefined", "null", "string", "number", "object", "array"}}

SuccessBodies ==
    MalformedBodies \cup {Body(TRUE, Embedding("array", v)) : v \in ArraysOf(Elements)}

\* the answers explored inside a generateEmbeddings call: a body without
\* embedding, the zero vector (p = 0) and the vectors 3 * e_p
BatchBodies ==
    {Body(TRUE, Embedding("undefined", <<>>))}
    \cup {Body(TRUE, Embedding("array",
                [i \in 1..MaxVectorLength |-> IF i = p THEN Num(3) ELSE Num(0)])) :
            p \in 0..MaxVectorLength}

\* !x for a JSON value (the strings and numbers of the model are non-empty
\* and non-zero)
IsFalsyEmbedding(embedding) == embedding.type \in {"undefined", "null"}

\* Array.isArray(x)
IsArray(embedding) == embedding.type = "array"

\* An axios rejection: no response at all (status 0, length 0), or an error
\* status with a body whose JSON text has the given length (0: no body)
AxiosError(status, bodyLength) ==
    [isAxiosError |-> TRUE, message |-> "", status |-> status, bodyLength |-> bodyLength]

\* new Error(message), thrown inside the try block
PlainError(message) ==
    [isAxiosError |-> FALSE, message |-> message, status |-> 0, bodyLength |-> 0]

BodyLimit == 200
RequestTimeout == 10000

AxiosErrors ==
    {AxiosError(0, 0), AxiosError(500, 0), AxiosError(500, 17),
     AxiosError(404, BodyLimit), AxiosError(503, BodyLimit + 50)}

\* the failures explored inside a generateEmbeddings call
BatchErrors == {AxiosError(500, 17)}

\* ECONNABORTED: the timeout of 10000 ms elapsed, there is no response
TimeoutError == AxiosError(0, 0)

(***************************************************************************)
(* generateEmbedding: what follows the await                               *)
(***************************************************************************)
NoVector == <<>>
NoFailure == [name |-> "none", cause |-> "", status |-> 0, bodyLength |-> 0]

Resolved(vector, runs) ==
    [ok |-> TRUE, vector |-> vector, error |-> NoFailure, normalized |-> runs]
Rejected(error) ==
    [ok |-> FALSE, vector |-> NoVector, error |-> error, normalized |-> 0]

\* A catch block that copies the whole body into the message
CatchUntruncated(error) ==
    [ok |-> FALSE, vector |-> <<>>, normalized |-> 0,
     error |-> [name |-> IF error.isAxiosError THEN "Ollama API error"
                         ELSE "Error generating embedding",
                cause |-> error.message, status |-> error.status,
                bodyLength |-> error.bodyLength]]

\* The catch block: an axios error becomes `Ollama API error (<status or
\* 'unknown'>)` followed by at most 200 characters of the body; anything
\* else becomes `Error generating embedding: <message>`
Catch(error) ==
    IF error.isAxiosError
    THEN Rejected([name |-> "Ollama API error", cause |-> "",
                   status |-> error.status,
                   bodyLength |-> IF error.bodyLength < BodyLimit
                                  THEN error.bodyLength ELSE BodyLimit])
    ELSE Rejected([name |-> "Error generating embedding", cause |-> error.message,
                   status |-> 0, bodyLength |-> 0])

\* !response.data || !response.data.embedding
IsMissing(body) == ~body.present \/ IsFalsyEmbedding(body.embedding)

\* A validation that forgets the length
IsInvalidIgnoringLength(embedding) ==
    IsFalsyEmbedding(embedding) \/ ~IsArray(embedding)

\* !embedding || !Array.isArray(embedding) || embedding.length === 0
IsInvalid(embedding) ==
    IsFalsyEmbedding(embedding) \/ ~IsArray(embedding) \/ Len(embedding.items) = 0

\* The try block after the await: validate, normalize in place, return
OnResponse(body) ==
    IF IsMissing(body)
    THEN Catch(PlainError("Invalid response from Ollama API - missing embedding data"))
    ELSE IF IsInvalid(body.embedding)
    THEN Catch(PlainError("Invalid embedding returned from Ollama API"))
    ELSE Resolved(normalizeVector(body.embedding.items), 1)

\* The await throws: straight to the catch block
OnRejection(error) == Catch(error)

(***************************************************************************)
(* A call on the service, and its position                                 *)
(***************************************************************************)
\* The POST a generateEmbedding call issues
Request(service, text) ==
    [url |-> service.apiEndpoint, prompt |-> text, model |-> service.model,
     timeout |-> RequestTimeout]

\* What the endpoint did with a request: a 2xx answer with a body, or a
\* rejection
NoBody == Body(FALSE, Embedding("undefined", <<>>))
Answered(body) == [resolved |-> TRUE, body |-> body, error |-> PlainError("")]
Failed(error) == [resolved |-> FALSE, body |-> NoBody, error |-> error]

\* generateEmbedding's outcome for an answer
OnAnswer(answer) ==
    IF answer.resolved THEN OnResponse(answer.body) ELSE OnRejection(answer.error)

\* pc: idle, awaiting (suspended at `await axios.post`), returned, failed.
\* inflight: the requests issued and not yet settled.  requests, responses:
\* everything the call issued and received, in order.  normalized: runs of
\* _normalizeVector.  embeddings: the local array of generateEmbeddings.
\* vector / vectors / error: what the caller receives.
NewCall(method, texts) ==
    [pc |-> "idle", method |-> method, texts |-> texts, i |-> 0,
     embeddings |-> <<>>, inflight |-> <<>>, waited |-> 0,
     requests |-> <<>>, responses |-> <<>>, normalized |-> 0,
     vector |-> NoVector, vectors |-> <<>>, error |-> NoFailure]

\* The call reaches `await axios.post(...)` for texts[i]
Await(c, service, i) ==
    [c EXCEPT !.pc = "awaiting", !.i = i, !.waited = 0,
              !.inflight = Append(@, Request(service, c.texts[i])),
              !.requests = Append(@, Request(service, c.texts[i]))]

\* A loop that puts the newest embedding first
PushFront(embeddings, vector) == <<vector>> \o embeddings

\* embeddings.push(vector)
Push(embeddings, vector) == Append(embeddings, vector)

\* generateEmbeddings after an item resolved: push, then the next text or
\* `return embeddings`
Continue(c, service, vector) ==
    LET pushed == [c EXCEPT !.embeddings = Push(@, vector)] IN
    IF c.i < Len(c.texts) THEN Await(pushed, service, c.i + 1)
    ELSE [pushed EXCEPT !.pc = "returned", !.vectors = pushed.embeddings]

\* A loop that skips an item that failed
AbortSkipping(c, service, error) ==
    IF c.i < Len(c.texts) THEN Await(c, service, c.i + 1)
    ELSE [c EXCEPT !.pc = "returned", !.vectors = c.embeddings]

\* generateEmbeddings after an item failed: the rejection leaves the loop and
\* the function
Abort(c, service, error) == [c EXCEPT !.pc = "failed", !.error = error]

\* The request in flight settles and the call runs on to its next await or
\* to its end
Settle(c, service, answer) ==
    LET outcome == OnAnswer(answer)
        logged == [c EXCEPT !.inflight = Tail(@),
                            !.responses = Append(@, answer),
                            !.normalized = @ + outcome.normalized]
    IN  IF c.method = "generateEmbedding"
        THEN IF outcome.ok
             THEN [logged EXCEPT !.pc = "returned", !.vector = outcome.vector]
             ELSE [logged EXCEPT !.pc = "failed", !.error = outcome.error]
        ELSE IF outcome.ok
             THEN Continue(logged, service, outcome.vector)
             ELSE Abort(logged, service, outcome.error)

\* The callers that may use one instance at the same time, none of them
\* having called yet
Callers == {"p", "q"}
NoCalls == [c \in Callers |-> NewCall("none", <<>>)]

\* An instance that keeps the array of generateEmbeddings in a field: a
\* vector pushed by one call lands in every call that is running
SettleShared(running, c, service, answer) ==
    [d \in DOMAIN running |->
        IF d = c THEN Settle(running[d], service, answer)
        ELSE IF running[d].pc = "awaiting" /\ OnAnswer(answer).ok
             THEN [running[d] EXCEPT !.embeddings = Push(@, OnAnswer(answer).vector)]
             ELSE running[d]]

\* The request of caller c settles: text, response and `embeddings` are
\* locals of that activation, so no other call changes
SettleOf(running, c, service, answer) ==
    [running EXCEPT ![c] = Settle(running[c], service, answer)]

(***************************************************************************)
(* OllamaEmbeddingService: the instance and the actions on it              *)
(***************************************************************************)
OllamaConfigs ==
    [apiEndpoint : {Undefined},
     model : {Undefined, "nomic-embed-text"},
     dimensions : {0, 2},
     version : {Undefined}]

TextLists == UNION {[1..n -> Texts] : n \in 0..MaxTexts}

InitOllama ==
    /\ FactoryLoaded
    /\ svc \in {OllamaEmbeddingService(config) : config \in OllamaConfigs}
    /\ call = NewCall("none", <<>>)
    /\ calls = NoCalls

GenerateEmbedding(text) ==
    /\ call.pc = "idle"
    /\ call' = Await(NewCall("generateEmbedding", <<text>>), svc, 1)
    /\ UNCHANGED <<svc, calls, factoryVars>>

GenerateEmbeddings(texts) ==
    /\ call.pc = "idle"
    /\ call' = IF texts = <<>>
               THEN [NewCall("generateEmbeddings", texts) EXCEPT !.pc = "returned"]
               ELSE Await(NewCall("generateEmbeddings", texts), svc, 1)
    /\ UNCHANGED <<svc, calls, factoryVars>>

\* Time passes while the request is unanswered
Tick ==
    /\ call.pc = "awaiting"
    /\ call.waited < MaxDelay
    /\ call' = [call EXCEPT !.waited = @ + 1]
    /\ UNCHANGED <<svc, calls, factoryVars>>

\* The endpoint answers 2xx
EndpointResponds(body) ==
    /\ call.pc = "awaiting"
    /\ call' = Settle(call, svc, Answered(body))
    /\ UNCHANGED <<svc, calls, factoryVars>>

\* The request fails: no connection, or an error status
RequestFails(error) ==
    /\ call.pc = "awaiting"
    /\ call' = Settle(call, svc, Failed(error))
    /\ UNCHANGED <<svc, calls, factoryVars>>

\* A request issued without timeout
NoTimeout == FALSE

\* The timeout of the request elapses
TimesOut ==
    /\ call.pc = "awaiting"
    /\ call.waited = MaxDelay
    /\ call' = Settle(call, svc, Failed(TimeoutError))
    /\ UNCHANGED <<svc, calls, factoryVars>>

\* The caller takes the vector(s) or the error
Finish ==
    /\ call.pc \in {"returned", "failed"}
    /\ call' = NewCall("none", <<>>)
    /\ UNCHANGED <<svc, calls, factoryVars>>

NextOllama ==
    \/ \E text \in Texts : GenerateEmbedding(text)
    \/ \E texts \in TextLists : GenerateEmbeddings(texts)
    \/ Tick
    \/ \E body \in (IF call.method = "generateEmbedding" THEN SuccessBodies ELSE BatchBodies) :
          EndpointResponds(body)
    \/ \E error \in (IF call.method = "generateEmbedding" THEN AxiosErrors ELSE BatchErrors) :
          RequestFails(error)
    \/ TimesOut
    \/ Finish

SpecOllama == InitOllama /\ [][NextOllama]_vars

\* Time does not stop while a request is unanswered, and the timer axios
\* arms for `timeout: 10000` fires once that time has passed; nothing is
\* assumed of the endpoint.
SpecOllamaFair == SpecOllama /\ WF_vars(Tick) /\ WF_vars(TimesOut)

(***************************************************************************)
(* Two callers on one instance                                             *)
(***************************************************************************)
\* most texts of a generateEmbeddings call made while another call runs
MaxConcurrentTexts == 2

ConcurrentTextLists == UNION {[1..n -> Texts] : n \in 0..MaxConcurrentTexts}

\* the answers explored while two calls run: a body without embedding and
\* two arrays normalizing to different vectors
ConcurrentBodies ==
    {Body(TRUE, Embedding("undefined", <<>>)),
     Body(TRUE, Embedding("array", <<Num(3), Num(4)>>)),
     Body(TRUE, Embedding("array", <<Num(0), Num(-3)>>))}

InitConcurrent ==
    /\ FactoryLoaded
    /\ svc \in {OllamaEmbeddingService(config) : config \in OllamaConfigs}
    /\ call = NewCall("none", <<>>)
    /\ calls = NoCalls

CallerGeneratesEmbedding(c, text) ==
    /\ calls[c].pc = "idle"
    /\ calls' = [calls EXCEPT ![c] = Await(NewCall("generateEmbedding", <<text>>), svc, 1)]
    /\ UNCHANGED <<svc, call, factoryVars>>

CallerGeneratesEmbeddings(c, texts) ==
    /\ calls[c].pc = "idle"
    /\ calls' = [calls EXCEPT ![c] =
                    IF texts = <<>>
                    THEN [NewCall("generateEmbeddings", texts) EXCEPT !.pc = "returned"]
                    ELSE Await(NewCall("generateEmbeddings", texts), svc, 1)]
    /\ UNCHANGED <<svc, call, factoryVars>>

\* The endpoint answers the request of caller c
EndpointRespondsTo(c, body) ==
    /\ calls[c].pc = "awaiting"
    /\ calls' = SettleOf(calls, c, svc, Answered(body))
    /\ UNCHANGED <<svc, call, factoryVars>>

\* The request of caller c fails
RequestFailsFor(c, error) ==
    /\ calls[c].pc = "awaiting"
    /\ calls' = SettleOf(calls, c, svc, Failed(error))
    /\ UNCHANGED <<svc, call, factoryVars>>

\* Caller c takes the vector(s) or the error
CallerFinishes(c) ==
    /\ calls[c].pc \in {"returned", "failed"}
    /\ calls' = [calls EXCEPT ![c] = NewCall("none", <<>>)]
    /\ UNCHANGED <<svc, call, factoryVars>>

NextConcurrent ==
    \/ \E c \in Callers, text \in Texts : CallerGeneratesEmbedding(c, text)
    \/ \E c \in Callers, texts \in ConcurrentTextLists : CallerGeneratesEmbeddings(c, texts)
    \/ \E c \in Callers, body \in ConcurrentBodies : EndpointRespondsTo(c, body)
    \/ \E c \in Callers, error \in BatchErrors : RequestFailsFor(c, error)
    \/ \E c \in Callers : CallerFinishes(c)

SpecConcurrent == InitConcurrent /\ [][NextConcurrent]_vars

(***************************************************************************)
(* Properties of the local-HTTP provider (specification SpecOllama)        *)
(***************************************************************************)
InvalidResponseMessages ==
    {"Invalid response from Ollama API - missing embedding data",
     "Invalid embedding returned from Ollama API"}

\* C7: generateEmbeddings issues one single-text request per text, in input
\* order, each only after the previous one has settled (at most one request
\* outstanding); when every request succeeds it returns one vector per
\* text, vector j being the normalized answer to text j.
C7_BatchIsSequentialAndOrdered ==
    call.method = "generateEmbeddings" =>
        /\ Len(call.inflight) <= 1
        /\ Len(call.requests) <= Len(call.responses) + 1
        /\ Len(call.requests) <= Len(call.texts)
        /\ \A j \in 1..Len(call.requests) : call.requests[j] = Request(svc, call.texts[j])
        /\ (/\ Len(call.responses) = Len(call.texts)
            /\ \A j \in 1..Len(call.responses) : OnAnswer(call.responses[j]).ok)
           => call.pc = "returned"
        /\ call.pc = "returned" =>
              /\ Len(call.requests) = Len(call.texts)
              /\ Len(call.responses) = Len(call.texts)
              /\ Len(call.vectors) = Len(call.texts)
              /\ \A j \in 1..Len(call.texts) :
                    /\ call.responses[j].resolved
                    /\ call.vectors[j] =
                          normalizeVector(call.responses[j].body.embedding.items)

\* C7 witness: three texts, three answers normalizing to different vectors,
\* the last answer arriving as late as the timeout allows.
C7_Witness ==
    /\ call.method = "generateEmbeddings"
    /\ call.pc = "returned"
    /\ call.texts = <<"a", "b", "a">>
    /\ Len(call.vectors) = 3
    /\ call.vectors[1] # call.vectors[2]
    /\ call.vectors[2] # call.vectors[3]
    /\ call.waited = MaxDelay

\* C8: when generateEmbedding fails for the item at position k, the whole
\* generateEmbeddings call fails with that failure, hands no vectors to the
\* caller and issues no request for a later item.
C8_FailureAbortsBatch ==
    call.method = "generateEmbeddings" =>
        \A k \in 1..Len(call.responses) :
            ~OnAnswer(call.responses[k]).ok =>
                /\ call.pc = "failed"
                /\ call.error = OnAnswer(call.responses[k]).error
                /\ call.vectors = <<>>
                /\ Len(call.requests) = k
                /\ call.inflight = <<>>

\* C8 witness: the second of three items fails after the first produced a
\* vector; the call has failed and never asked for the third.
C8_Witness ==
    /\ call.method = "generateEmbeddings"
    /\ Len(call.texts) = 3
    /\ Len(call.responses) = 2
    /\ ~OnAnswer(call.responses[2]).ok
    /\ Len(call.embeddings) = 1
    /\ call.pc = "failed"

\* C9: a 2xx answer whose payload has no embedding field, an embedding that is
\* not an array, or an empty embedding array makes generateEmbedding fail with
\* an invalid-response error; _normalizeVector does not run and no vector is
\* returned.  (An array with elements of the wrong type is the case of C10.)
C9_MalformedResponseIsRejected ==
    (/\ call.method = "generateEmbedding"
     /\ call.responses # <<>>
     /\ call.responses[1].resolved
     /\ call.responses[1].body \in MalformedBodies)
    => /\ call.pc = "failed"
       /\ call.error.name = "Error generating embedding"
       /\ call.error.cause \in InvalidResponseMessages
       /\ call.normalized = 0
       /\ call.vector = NoVector

\* C9 witness: the endpoint answered with an empty embedding array.
C9_Witness ==
    /\ call.method = "generateEmbedding"
    /\ call.responses = <<Answered(Body(TRUE, Embedding("array", <<>>)))>>
    /\ call.pc = "failed"

\* C10: generateEmbedding fails, or returns a non-empty vector of numbers of
\* Euclidean norm 1; an answer whose array holds a non-numeric element is
\* never turned into a returned vector.
C10_ReturnsOnlyUnitNumericVectors ==
    (call.method = "generateEmbedding" /\ call.pc = "returned") =>
        /\ Len(call.vector) > 0
        /\ \A i \in 1..Len(call.vector) : IsNumber(call.vector[i])
        /\ IsUnitVector(call.vector)
        /\ \A i \in 1..Len(call.responses[1].body.embedding.items) :
              IsNumber(call.responses[1].body.embedding.items[i])

\* The array of the 2xx answer to a single generateEmbedding call that has
\* returned
ReturnedSingle == call.method = "generateEmbedding" /\ call.pc = "returned"
AnsweredItems == call.responses[1].body.embedding.items

\* C11: when the answer is an all-zero array of length n >= 1, the vector
\* returned has length n, first component 1 and every other component 0, and
\* _normalizeVector performed no division.
C11_ZeroVectorBecomesFirstAxis ==
    (/\ ReturnedSingle
     /\ \A i \in 1..Len(AnsweredItems) : AnsweredItems[i] = Num(0))
    => /\ Len(call.vector) = Len(AnsweredItems)
       /\ call.vector[1] = Num(1)
       /\ \A i \in 2..Len(call.vector) : call.vector[i] = Num(0)
       /\ Divisions(AnsweredItems) = 0
       /\ call.normalized = 1

\* C11 witness: the endpoint answered with as many zeros as an array holds
\* and the caller received the first axis.
C11_Witness ==
    /\ ReturnedSingle
    /\ AnsweredItems = [i \in 1..MaxVectorLength |-> Num(0)]
    /\ call.vector = [i \in 1..MaxVectorLength |-> IF i = 1 THEN Num(1) ELSE Num(0)]

\* The sign of a component: 1e200 is positive
Sign(x) == IF x.t = "1e200" \/ x.n > 0 THEN 1 ELSE IF x.n < 0 THEN -1 ELSE 0

\* y = p / q for a component y = n / sqrt(d) and integers p >= 0, q > 0
IsFraction(y, p, q) == y.t = "number" /\ y.n >= 0 /\ y.n * y.n * q * q = p * p * y.d

\* out is in the proportions of the finite numbers of in: out[i] : out[j] is
\* in[i] : in[j], compared by squares, the signs apart
SameProportions(out, in) ==
    \A i, j \in 1..Len(in) :
        (in[i].t = "number" /\ in[j].t = "number") =>
            out[i].n * out[i].n * out[j].d * in[j].n * in[j].n
                = out[j].n * out[j].n * out[i].d * in[i].n * in[i].n

\* C12: when the answer is a non-zero array of numbers, the vector returned
\* has the same length and is the answer divided by its Euclidean norm: norm
\* 1, the signs and the proportions of the answer; [3, 4] is returned as
\* [0.6, 0.8].
C12_NonZeroVectorIsDividedByItsNorm ==
    (/\ ReturnedSingle
     /\ \A i \in 1..Len(AnsweredItems) : IsNumber(AnsweredItems[i])
     /\ \E i \in 1..Len(AnsweredItems) : AnsweredItems[i] # Num(0))
    => /\ Len(call.vector) = Len(AnsweredItems)
       /\ IsUnitVector(call.vector)
       /\ \A i \in 1..Len(call.vector) : Sign(call.vector[i]) = Sign(AnsweredItems[i])
       /\ SameProportions(call.vector, AnsweredItems)
       /\ AnsweredItems = <<Num(3), Num(4)>>
          => IsFraction(call.vector[1], 6, 10) /\ IsFraction(call.vector[2], 8, 10)

\* C15: every vector generateEmbedding returns has as many components as
\* getModelInfo().dimensions says, whatever dimensions the instance was
\* configured with and whatever array the endpoint answered.
C15_VectorLengthIsDimensions ==
    ReturnedSingle => Len(call.vector) = getModelInfo(svc).dimensions

\* The rejection a single generateEmbedding call got from the HTTP client
RequestFailed ==
    /\ call.method = "generateEmbedding"
    /\ call.responses # <<>>
    /\ ~call.responses[1].resolved

\* C17: when the request fails, generateEmbedding fails and returns no
\* vector; its error is the "Ollama API error", with status 'unknown'
\* (0 in the model) when there was no response and the status code of the
\* response otherwise, followed by the serialized response body cut to its
\* first 200 characters (nothing when there is no body).
C17_RequestFailureIsReported ==
    RequestFailed =>
        LET failure == call.responses[1].error IN
        /\ call.pc = "failed"
        /\ call.vector = NoVector
        /\ call.normalized = 0
        /\ call.error.name = "Ollama API error"
        /\ call.error.status = failure.status
        /\ (call.error.status = 0) = (failure = AxiosError(0, 0))
        /\ call.error.bodyLength <= BodyLimit
        /\ call.error.bodyLength <= failure.bodyLength
        /\ failure.bodyLength <= BodyLimit => call.error.bodyLength = failure.bodyLength
        /\ failure.bodyLength > BodyLimit => call.error.bodyLength = BodyLimit

\* C17 witness: the server answered 503 with a body longer than the limit,
\* and the error holds the status and the first 200 characters.
C17_Witness ==
    /\ RequestFailed
    /\ call.responses[1].error = AxiosError(503, BodyLimit + 50)
    /\ call.pc = "failed"
    /\ call.error.status = 503
    /\ call.error.bodyLength = BodyLimit

\* C18: a call suspended at a request eventually completes, by returning
\* or by failing, whatever the endpoint does: a generateEmbedding call
\* because its request is answered, rejected or timed out, a
\* generateEmbeddings call because it makes finitely many such requests.
C18_EveryCallCompletes ==
    (call.pc = "awaiting") ~> (call.pc \in {"returned", "failed"})

\* C18 witness: the endpoint answered the first text of a batch and then
\* stayed silent; the timeout failed the second request and the call.
C18_Witness ==
    /\ call.method = "generateEmbeddings"
    /\ Len(call.responses) = 2
    /\ call.responses[1].resolved
    /\ call.responses[2] = Failed(TimeoutError)
    /\ call.waited = MaxDelay
    /\ call.pc = "failed"
    /\ call.inflight = <<>>

\* What call k shows is made of its own texts and of the answers to its own
\* requests, and of nothing else
OwnResult(k) ==
    LET outcomes == [j \in 1..Len(k.responses) |-> OnAnswer(k.responses[j])]
        succeeded == {j \in 1..Len(k.responses) : outcomes[j].ok}
    IN  /\ \A j \in 1..Len(k.requests) : k.requests[j] = Request(svc, k.texts[j])
        /\ k.method = "generateEmbeddings" =>
              /\ Len(k.embeddings) = Cardinality(succeeded)
              /\ \A j \in 1..Len(k.embeddings) : k.embeddings[j] = outcomes[j].vector
              /\ k.pc = "returned" =>
                    k.vectors = k.embeddings /\ Len(k.vectors) = Len(k.texts)
        /\ (k.method = "generateEmbedding" /\ k.pc = "returned") =>
              k.vector = outcomes[1].vector
        /\ k.pc = "failed" => k.error = outcomes[Len(k.responses)].error

\* C19: under every interleaving of the calls of two callers on one
\* instance, what each call returns or fails with depends only on its own
\* texts and on the answers to its own requests; no step changes a field of
\* the instance, so getModelInfo answers the same before, during and after
\* the calls.
C19_ConcurrentCallsAreIndependent ==
    /\ [](\A c \in Callers : OwnResult(calls[c]))
    /\ [][svc' = svc /\ getModelInfo(svc') = getModelInfo(svc)]_vars

\* C19 witness: one caller has its two vectors while the other, which asked
\* for other texts, holds one different vector and awaits its second answer.
C19_Witness ==
    /\ calls["p"].method = "generateEmbeddings"
    /\ calls["p"].pc = "returned"
    /\ Len(calls["p"].vectors) = 2
    /\ calls["q"].method = "generateEmbeddings"
    /\ calls["q"].pc = "awaiting"
    /\ calls["q"].texts # calls["p"].texts
    /\ Len(calls["q"].embeddings) = 1
    /\ calls["q"].embeddings[1] # calls["p"].vectors[1]
    /\ calls["q"].embeddings[1] # calls["p"].vectors[2]

(***************************************************************************)
(* EmbeddingServiceFactory: the state after loading and the actions       *)
(***************************************************************************)
Init ==
    /\ FactoryLoaded
    /\ svc = OllamaEmbeddingService(
                [apiEndpoint |-> Undefined, model |-> Undefined,
                 dimensions |-> 0, version |-> Undefined])
    /\ call = NewCall("none", <<>>)
    /\ calls = NoCalls

\* One action per static method
RegisterProvider(name, provider) ==
    /\ last = NoCall
    /\ nreg < MaxRegister
    /\ providers' = SetOwnProperty(providers, ToLowerCase(name), provider)
    /\ proto' = SetPrototype(proto, ToLowerCase(name), provider)
    /\ registered' = [registered EXCEPT ![ToLowerCase(name)] = provider]
    /\ nreg' = nreg + 1
    /\ UNCHANGED <<last, ollamaVars>>

ResetRegistry ==
    /\ last = NoCall
    /\ providers' = <<>>
    /\ proto' = ObjectPrototype
    /\ registered' = [k \in Keys |-> Undefined]
    /\ UNCHANGED <<nreg, last, ollamaVars>>

GetAvailableProviders ==
    /\ last = NoCall
    /\ last' = [NoCall EXCEPT !.op = "getAvailableProviders",
                              !.listed = getAvailableProviders(providers)]
    /\ UNCHANGED <<providers, proto, registered, nreg, ollamaVars>>

\* A createService that registers the default constructor under the name it
\* was asked for
CreateServiceRegistering(config) ==
    /\ last = NoCall
    /\ last' = [NoCall EXCEPT !.op = "createService",
                              !.config = config,
                              !.outcome = createService(providers, proto, config),
                              !.calls = createServiceCalls(providers, proto, config)]
    /\ providers' = SetOwnProperty(providers, ProviderName(config), BuiltinDefault)
    /\ UNCHANGED <<proto, registered, nreg, ollamaVars>>

CreateService(config) ==
    /\ last = NoCall
    /\ last' = [NoCall EXCEPT !.op = "createService",
                              !.config = config,
                              !.outcome = createService(providers, proto, config),
                              !.calls = createServiceCalls(providers, proto, config)]
    /\ UNCHANGED <<providers, proto, registered, nreg, ollamaVars>>

CreateFromEnvironment(env) ==
    /\ last = NoCall
    /\ last' = [NoCall EXCEPT !.op = "createFromEnvironment",
                              !.env = env,
                              !.outcome = createFromEnvironment(providers, proto, env),
                              !.calls = createFromEnvironmentCalls(providers, proto, env)]
    /\ UNCHANGED <<providers, proto, registered, nreg, ollamaVars>>

\* The caller takes the result of its call
Return ==
    /\ last # NoCall
    /\ last' = NoCall
    /\ UNCHANGED <<providers, proto, registered, nreg, ollamaVars>>

Next ==
    \/ \E name \in RawNames, provider \in CallerConstructors : RegisterProvider(name, provider)
    \/ ResetRegistry
    \/ GetAvailableProviders
    \/ \E config \in Configs : CreateService(config)
    \/ \E env \in Envs : CreateFromEnvironment(env)
    \/ Return

Spec == Init /\ [][Next]_vars

(***************************************************************************)
(* Properties of the factory (specification Spec)                          *)
(***************************************************************************)
NothingRegistered == \A k \in Keys : registered[k] = Undefined

\* C1: createFromEnvironment always returns a service and raises nothing,
\* whatever the registry holds and whatever the environment says; when
\* createService fails for the environment-derived config, the service
\* returned is the synthetic default provider.
C1_CreateFromEnvironmentNeverFails ==
    last.op = "createFromEnvironment" =>
        /\ last.outcome.ok
        /\ last.outcome.error = NoError
        /\ last.outcome.service.class \in
              {"DefaultEmbeddingService", "OpenAIEmbeddingService",
               "OllamaEmbeddingService", "CustomService"}
        /\ (/\ ~UseMockEmbeddings(last.env)
            /\ ~createService(providers, proto, EnvironmentConfig(last.env)).ok)
           => last.outcome.service = DefaultEmbeddingService(0)

\* C1 witness: the environment selects a provider whose registered
\* constructor throws, and the caller still holds the synthetic provider.
C1_Witness ==
    /\ last.op = "createFromEnvironment"
    /\ last.env.EMBEDDING_PROVIDER = "x"
    /\ registered["x"] = "G"
    /\ last.calls = <<[fn |-> "G", config |-> EnvironmentConfig(last.env)]>>
    /\ last.outcome = Returned(DefaultEmbeddingService(0))

\* C2: createService with a provider name that has not been registered since
\* the last reset fails with the "provider not registered" error naming that
\* name, and invokes no constructor.
C2_UnregisteredNameIsRejected ==
    (/\ last.op = "createService"
     /\ last.config.provider # Undefined
     /\ registered[ToLowerCase(last.config.provider)] = Undefined)
    => /\ last.outcome = Thrown(NotRegisteredError(ToLowerCase(last.config.provider)))
       /\ last.calls = <<>>

\* C3: after registerProvider(x, f), with no later registration of that name
\* and no reset, createService({provider: x, ...}) invokes f, once, with the
\* config it was given, invokes nothing else, and returns what f returns.
C3_RegisteredConstructorIsInvoked ==
    (/\ last.op = "createService"
     /\ last.config.provider # Undefined
     /\ registered[ToLowerCase(last.config.provider)] # Undefined)
    => LET f == registered[ToLowerCase(last.config.provider)] IN
       /\ last.calls = <<[fn |-> f, config |-> last.config]>>
       /\ last.outcome = CallProvider(f, last.config)

\* C4: when the provider createService resolves is registered and its
\* constructor fails, createService fails with that very failure; it returns
\* no service in its place.
C4_ConstructorFailurePropagates ==
    last.op = "createService" =>
        LET f == registered[ProviderName(last.config)] IN
        (f # Undefined /\ ~CallProvider(f, last.config).ok)
        => /\ ~last.outcome.ok
           /\ last.outcome.service = NoService
           /\ last.outcome.error = CallProvider(f, last.config).error

\* C4 witness: a registered constructor that throws was invoked and its error
\* reached the caller.
C4_Witness ==
    /\ last.op = "createService"
    /\ registered[ProviderName(last.config)] = "G"
    /\ last.calls = <<[fn |-> "G", config |-> last.config]>>
    /\ last.outcome = Thrown(CustomError)

\* C5: after resetRegistry with no registerProvider since, every createService
\* call fails with the unregistered-provider error and getAvailableProviders
\* returns the empty sequence.
C5_AfterResetEverythingIsUnregistered ==
    NothingRegistered =>
        /\ last.op = "createService"
           => last.outcome = Thrown(NotRegisteredError(ProviderName(last.config)))
        /\ last.op = "getAvailableProviders" => last.listed = <<>>

\* C6: with the force-synthetic flag set, createFromEnvironment returns the
\* synthetic default provider and invokes no registered constructor, whatever
\* the other variables and the registry hold.
C6_MockFlagForcesSynthetic ==
    (last.op = "createFromEnvironment" /\ last.env.MOCK_EMBEDDINGS = "true")
    => /\ last.outcome = Returned(DefaultEmbeddingService(0))
       /\ last.calls = <<>>

\* C6 witness: the flag is set while the environment names 'default', which
\* was re-registered with another constructor, and a credential, an endpoint
\* and a model are given.
C6_Witness ==
    /\ last.op = "createFromEnvironment"
    /\ last.env.MOCK_EMBEDDINGS = "true"
    /\ last.env.EMBEDDING_PROVIDER = "default"
    /\ last.env.OPENAI_API_KEY # Undefined
    /\ last.env.OLLAMA_API_ENDPOINT # Undefined
    /\ last.env.EMBEDDING_MODEL # Undefined
    /\ registered["default"] = "F"
    /\ last.outcome.service = DefaultEmbeddingService(0)

\* The names the registry's entries were inserted under since the last reset,
\* oldest first (an overwritten entry keeps its place)
InsertionOrder == [i \in 1..Len(providers) |-> providers[i].name]

RegisteredNames == {k \in Keys : registered[k] # Undefined}

\* C13: getAvailableProviders returns exactly the lowercased names registered
\* since the last reset, each once, in insertion order, digit-only names
\* included.
C13_ListsRegisteredNamesInInsertionOrder ==
    last.op = "getAvailableProviders" =>
        /\ {last.listed[i] : i \in 1..Len(last.listed)} = RegisteredNames
        /\ Len(last.listed) = Cardinality(RegisteredNames)
        /\ last.listed = InsertionOrder

\* C14: with the built-in 'openai' constructor in place, createService for
\* that provider (in any casing) without credential fails with the "API key
\* is required" error raised by the constructor's first statement: no
\* OpenAIEmbeddingService is constructed and nothing else is invoked.  The
\* same situation reached through createFromEnvironment (flag not set)
\* returns the synthetic default provider.
C14_MissingCredentialFailsAtConstruction ==
    registered["openai"] = BuiltinOpenAI =>
        /\ (/\ last.op = "createService"
            /\ ProviderName(last.config) = "openai"
            /\ Falsy(last.config.apiKey))
           => /\ last.outcome = Thrown(ApiKeyRequiredError)
              /\ last.outcome.service = NoService
              /\ last.calls = <<[fn |-> BuiltinOpenAI, config |-> last.config]>>
        /\ (/\ last.op = "createFromEnvironment"
            /\ last.env.MOCK_EMBEDDINGS # "true"
            /\ ProviderName(EnvironmentConfig(last.env)) = "openai"
            /\ Falsy(last.env.OPENAI_API_KEY))
           => /\ last.outcome = Returned(DefaultEmbeddingService(0))
              /\ last.calls = <<[fn |-> BuiltinOpenAI, config |-> EnvironmentConfig(last.env)]>>

\* C14 witness: after another provider was registered, the environment names
\* "OpenAI" and holds no credential; the built-in constructor was entered
\* and the caller holds the synthetic provider.
C14_Witness ==
    /\ registered["openai"] = BuiltinOpenAI
    /\ registered["x"] # Undefined
    /\ last.op = "createFromEnvironment"
    /\ last.env.EMBEDDING_PROVIDER = "OpenAI"
    /\ last.env.OPENAI_API_KEY = Undefined
    /\ last.env.MOCK_EMBEDDINGS = Undefined
    /\ last.calls = <<[fn |-> BuiltinOpenAI, config |-> EnvironmentConfig(last.env)]>>
    /\ last.outcome = Returned(DefaultEmbeddingService(0))

\* C16: registerProvider(name, f) stores f under the lowercased name,
\* overwriting the entry equal to it ignoring case and leaving every other
\* entry as it was: the registry holds one entry per name registered since
\* the last reset, with the constructor registered last, and nothing else.
\* createService resolves the name ignoring case: whatever the casing of
\* config.provider, it invokes the constructor registered last under any
\* casing of that name.
C16_RegistrationIsCaseInsensitive ==
    /\ \A k \in RegisteredNames :
          HasOwn(providers, k) /\ providers[OwnValue(providers, k)].fn = registered[k]
    /\ \A i \in 1..Len(providers) : registered[providers[i].name] = providers[i].fn
    /\ \A i, j \in 1..Len(providers) : providers[i].name = providers[j].name => i = j
    /\ (/\ last.op = "createService"
        /\ last.config.provider # Undefined
        /\ ToLowerCase(last.config.provider) \in RegisteredNames)
       => last.calls = <<[fn |-> registered[ToLowerCase(last.config.provider)],
                          config |-> last.config]>>

\* A step that makes one of the three calls that only read the registry
ReadingCall ==
    /\ last = NoCall
    /\ last'.op \in {"createService", "createFromEnvironment", "getAvailableProviders"}

\* C20: createService, createFromEnvironment and getAvailableProviders leave
\* the registry (its entries and its prototype) as it was, so only
\* registerProvider and resetRegistry change it; createFromEnvironment
\* returns the synthetic fallback when the flag is set or createService
\* failed, and otherwise exactly the service createService made, having
\* invoked what createService invokes.
C20_OnlyRegisterAndResetChangeRegistry ==
    /\ [][ReadingCall => (providers' = providers /\ proto' = proto)]_vars
    /\ [][(providers' # providers \/ proto' # proto) => (last = NoCall /\ last' = NoCall)]_vars
    /\ [](last.op = "createFromEnvironment" =>
            LET made == createService(providers, proto, EnvironmentConfig(last.env)) IN
            IF last.env.MOCK_EMBEDDINGS = "true"
            THEN last.outcome = Returned(DefaultEmbeddingService(0)) /\ last.calls = <<>>
            ELSE /\ last.calls = createServiceCalls(providers, proto, EnvironmentConfig(last.env))
                 /\ made.ok => last.outcome = made
                 /\ ~made.ok => last.outcome = Returned(DefaultEmbeddingService(0)))

\* C20 witness: a caller-registered constructor made the service that
\* createFromEnvironment returned, and the registry still holds the entry
\* added before the call.
C20_Witness ==
    /\ last.op = "createFromEnvironment"
    /\ last.env.EMBEDDING_PROVIDER = "X"
    /\ registered["x"] = "F"
    /\ HasOwn(providers, "x")
    /\ Len(providers) = 4
    /\ last.calls = <<[fn |-> "F", config |-> EnvironmentConfig(last.env)]>>
    /\ last.outcome = Returned(CustomService)

====
